---- MODULE Spec2Model ----
(***************************************************************************)
(* hpycc: upload ("spray") of a tabular dataset to an HPCC cluster.        *)
(*                                                                         *)
(* Two entry points are modelled:                                          *)
(*   spray_file          (hpycc/spray.py): chunks the dataset, submits the *)
(*                       chunks through a ThreadPoolExecutor, waits,       *)
(*                       concatenates the temporaries, deletes them;       *)
(*   send_file_internal  (hpycc/filerunning/sendfiles.py): the sequential  *)
(*                       variant with a direct path for small datasets.    *)
(*                                                                         *)
(* A dataset of n rows is its RangeIndex 0..n-1; a serialised slice is the *)
(* sequence of the row labels it holds.  The cluster is the map `files`    *)
(* from logical file names to the rows they hold, and `calls` is the       *)
(* sequence of scripts the execution gateway has run, in completion order. *)
(***************************************************************************)
EXTENDS Integers, Sequences, FiniteSets, TLC

\* Bounds of the model.
MaxRows == 4
MaxChunkSize == 2
MaxWorkers == 2
MaxCols == 3
MaxLen == 3

VARIABLES
    fn,                 \* the function applied on its own (FnSpec), or "none"
    args,               \* its arguments
    ret,                \* <<>> before the call, then <<what it returned or raised>>
    source_file,        \* kind of the source_file argument
    entry,              \* which entry point the caller invoked
    nrows,              \* len(df)
    chunk_size,         \* argument chunk_size
    max_workers,        \* argument max_workers (spray_file)
    overwrite,          \* argument overwrite
    delete,             \* argument delete (send_file_internal)
    pc,                 \* position of the calling thread
    chunks,             \* the chunk plan in use
    target_names,       \* temporary logical file names, in plan order
    stringified_rows,   \* the serialised slice of each chunk handled so far
    futures,            \* state of each submitted future (spray_file)
    files,              \* cluster: logical file name -> rows
    calls,              \* scripts run by the gateway, in completion order
    result              \* "none" | "returned" | "raised"

upload_vars == <<source_file, entry, nrows, chunk_size, max_workers, overwrite, delete, pc,
                 chunks, target_names, stringified_rows, futures, files, calls, result>>

vars == <<fn, args, ret, source_file, entry, nrows, chunk_size, max_workers, overwrite, delete, pc, chunks,
          target_names, stringified_rows, futures, files, calls, result>>

----------------------------------------------------------------------------
\* Pure helpers

Min(a, b) == IF a < b THEN a ELSE b

RECURSIVE Flatten(_)
Flatten(seqs) == IF seqs = <<>> THEN <<>> ELSE Head(seqs) \o Flatten(Tail(seqs))

\* df.loc[start:end] on the RangeIndex 0..n-1: a label slice, both ends
\* inclusive, labels past the index dropped.
loc(n, start, end) ==
    LET last == Min(end, n - 1)
    IN  [k \in 1..(IF last >= start THEN last - start + 1 ELSE 0) |-> start + k - 1]

\* The dataset's rows in source order.
AllRows(n) == [k \in 1..n |-> k - 1]

\* hpycc.utils.filechunker.make_chunks as spray_file uses it: the chunk plan,
\* (start_row, num_rows) pairs covering [0, num) in consecutive ranges of
\* chunk_size rows, the last one shortened.
make_chunks(num, size) ==
    [k \in 1..((num + size - 1) \div size) |->
        <<(k - 1) * size, Min(size, num - (k - 1) * size)>>]

\* First component of make_chunks as _send_file_in_chunks uses it: the start
\* rows of the plan.
break_positions(num, size) ==
    [k \in 1..Len(make_chunks(num, size)) |-> make_chunks(num, size)[k][1]]

_stringify_rows(n, start_row, num_rows) == loc(n, start_row, start_row + num_rows)

make_rows(n, start, end) == loc(n, start, end)

\* Logical file names.
logical_file == [kind |-> "target", from |-> 0, to |-> 0]

\* Mutant: the name leaves out the chunk's rows.
TempNameNoRows(start, end) == [kind |-> "TEMPHPYCC", from |-> 0, to |-> 0]

TempName(start, end) == [kind |-> "TEMPHPYCC", from |-> start, to |-> end]

\* target_names of spray_file.
SprayTargetNames(plan) ==
    [k \in 1..Len(plan) |-> TempName(plan[k][1], plan[k][1] + plan[k][2])]

\* start_rows / end_rows of _send_file_in_chunks, zipped.
SendChunks(num, size) ==
    LET bp       == break_positions(num, size)
        interior == SubSeq(bp, 2, Len(bp) - 1)
        end_rows == interior \o <<num>>
        start_rows == <<0>> \o [k \in 1..Len(interior) |-> interior[k] + 1]
    IN  [k \in 1..Min(Len(start_rows), Len(end_rows)) |-> <<start_rows[k], end_rows[k]>>]

----------------------------------------------------------------------------
\* The cluster behind the execution gateway

Write(fs, name, rows) ==
    [n \in DOMAIN fs \cup {name} |-> IF n = name THEN rows ELSE fs[n]]

Remove(fs, names) == [n \in DOMAIN fs \ names |-> fs[n]]

Range(s) == {s[k] : k \in DOMAIN s}

\* An OUTPUT to a logical file that exists fails without OVERWRITE.
CanWrite(name) == overwrite \/ name \notin DOMAIN files

\* A DATASET('name', ...) read fails when the logical file does not exist.
CanRead(names) == Range(names) \subseteq DOMAIN files

\* Script text: a sequence of tokens, <<"lit", text>> for the text of a format
\* string and <<"arg", value>> for a value formatted into it.
Lit(text) == <<"lit", text>>

Arg(value) == <<"arg", value>>

\* The record set shared by the scripts of an upload.
record_set == Arg("record_set")

\* spray.py 35-40: script_content of _spray_stringified_data.
SprayScript(data, name, ow) ==
    <<Lit("a := DATASET(["), Arg(data), Lit("], {"), record_set,
      Lit("});\nOUTPUT(a, ,'"), Arg(name), Lit("' , "), Lit("EXPIRE(1)")>>
    \o (IF ow THEN <<Lit(", OVERWRITE")>> ELSE <<>>)
    \o <<Lit(");")>>

\* spray.py 218-220, sendfiles.py 84-86: read_files.
ReadFiles(names) ==
    Flatten([k \in 1..Len(names) |->
        (IF k > 1 THEN <<Lit("+\n")>> ELSE <<>>)
        \o <<Lit("DATASET('"), Arg(names[k]), Lit("', {"), record_set, Lit("}, THOR)")>>])

\* Mutant: the directive is appended whatever the flag.
ConcatenateScriptAlwaysOverwrite(names, name, ow) ==
    <<Lit("a := ")>> \o ReadFiles(names) \o <<Lit(";\nOUTPUT(a, ,'"), Arg(name), Lit("' ")>>
    \o <<Lit(", OVERWRITE")>>
    \o <<Lit(");")>>

\* spray.py 218-226: script of concatenate_logical_files.
ConcatenateScript(names, name, ow) ==
    <<Lit("a := ")>> \o ReadFiles(names) \o <<Lit(";\nOUTPUT(a, ,'"), Arg(name), Lit("' ")>>
    \o (IF ow THEN <<Lit(", OVERWRITE")>> ELSE <<>>)
    \o <<Lit(");")>>

\* sendfiles.py 155-158: script of send_data.
SendDataScript(all_rows, name, ow) ==
    <<Lit("a := DATASET(["), Arg(all_rows), Lit("], {"), record_set,
      Lit("});\nOUTPUT(a, ,'"), Arg(name), Lit("' , "), Lit("EXPIRE(1)"),
      Lit(IF ow THEN ", OVERWRITE" ELSE ""), Lit(");")>>

\* sendfiles.py 81-94: script of concat_files, the deletes appended on request.
ConcatFilesScript(names, name, ow, deletes) ==
    <<Lit("a := ")>> \o ReadFiles(names) \o <<Lit(";\nOUTPUT(a, ,'"), Arg(name), Lit("' "),
      Lit(IF ow THEN ", OVERWRITE" ELSE ""), Lit(");")>>
    \o (IF deletes = <<>> THEN <<>>
        ELSE <<Lit("\n\nIMPORT std;\n")>>
             \o Flatten([k \in 1..Len(deletes) |->
                    (IF k > 1 THEN <<Lit(";")>> ELSE <<>>)
                    \o <<Lit("STD.File.DeleteLogicalFile('"), Arg(deletes[k]), Lit("')")>>])
             \o <<Lit(";")>>)

\* The script text of one gateway call of the entry point in use; the script
\* of delete_logical_file is not modelled.
ScriptFor(op, name, rows, sources, deletes) ==
    CASE op = "submit" /\ entry = "spray_file" -> SprayScript(rows, name, overwrite)
      [] op = "submit" /\ entry # "spray_file" -> SendDataScript(rows, name, overwrite)
      [] op = "concat" /\ entry = "spray_file" -> ConcatenateScript(sources, name, overwrite)
      [] op = "concat" /\ entry # "spray_file" ->
            ConcatFilesScript(sources, name, overwrite, deletes)
      [] OTHER -> <<>>

Call(op, name, rows, sources, deletes, chunk, ok) ==
    [op |-> op, name |-> name, rows |-> rows, sources |-> sources,
     deletes |-> deletes, chunk |-> chunk, ok |-> ok,
     script |-> ScriptFor(op, name, rows, sources, deletes)]

NumCalls(op) == Cardinality({k \in DOMAIN calls : calls[k].op = op})

----------------------------------------------------------------------------
Init ==
    /\ fn = "none"
    /\ args = <<>>
    /\ ret = <<>>
    /\ entry \in {"spray_file", "send_file_internal"}
    /\ source_file \in {"DataFrame", "str", "other"}
    /\ (entry = "send_file_internal") => (source_file = "str")
    /\ nrows \in 0..MaxRows
    /\ chunk_size \in 1..MaxChunkSize
    /\ max_workers \in 1..MaxWorkers
    /\ overwrite \in BOOLEAN
    /\ delete \in BOOLEAN
    /\ pc = "start"
    /\ chunks = <<>>
    /\ target_names = <<>>
    /\ stringified_rows = <<>>
    /\ futures = <<>>
    /\ files = <<>>
    /\ calls = <<>>
    /\ result = "none"

----------------------------------------------------------------------------
\* spray_file

\* Mutant: the source is used whatever its type.
AnySource(src) == TRUE

\* spray.py 142-145: the isinstance tests on source_file.
ValidSource(src) == src \in {"DataFrame", "str"}

\* spray.py 146-147: raise TypeError.
SprayTypeError ==
    /\ pc = "start"
    /\ entry = "spray_file"
    /\ ~ValidSource(source_file)
    /\ pc' = "done"
    /\ result' = "raised"
    /\ UNCHANGED <<fn, args, ret, source_file, entry, nrows, chunk_size, max_workers, overwrite,
                   delete, chunks, target_names, stringified_rows, futures, files, calls>>

\* spray.py 149-158: record set, chunk plan, temporary names.
SprayPlan ==
    /\ pc = "start"
    /\ entry = "spray_file"
    /\ ValidSource(source_file)
    /\ chunks' = make_chunks(nrows, chunk_size)
    /\ target_names' = SprayTargetNames(chunks')
    /\ pc' = "submit"
    /\ UNCHANGED <<fn, args, ret, source_file, entry, nrows, chunk_size, max_workers, overwrite, delete,
                   stringified_rows, futures, files, calls, result>>

\* spray.py 162-165: one turn of the list comprehension; the generator
\* serialises the next chunk in the calling thread and the task is queued.
SpraySubmit ==
    /\ pc = "submit"
    /\ Len(futures) < Len(chunks)
    /\ LET k == Len(futures) + 1
       IN  /\ stringified_rows' =
                Append(stringified_rows, _stringify_rows(nrows, chunks[k][1], chunks[k][2]))
           /\ futures' = Append(futures, "queued")
    /\ UNCHANGED <<fn, args, ret, source_file, entry, nrows, chunk_size, max_workers, overwrite, delete, pc,
                   chunks, target_names, files, calls, result>>

InFlight == {k \in DOMAIN futures : futures[k] = "running"}

\* Mutant: a thread per task, the pool size ignored.
WorkerAlwaysFree == TRUE

\* ThreadPoolExecutor(max_workers=max_workers): a worker thread is free.
WorkerFree == Cardinality(InFlight) < max_workers

\* A free worker takes the oldest queued task.
WorkerStart(k) ==
    /\ entry = "spray_file"
    /\ futures[k] = "queued"
    /\ \A j \in 1..(k - 1) : futures[j] # "queued"
    /\ WorkerFree
    /\ futures' = [futures EXCEPT ![k] = "running"]
    /\ UNCHANGED <<fn, args, ret, source_file, entry, nrows, chunk_size, max_workers, overwrite, delete, pc,
                   chunks, target_names, stringified_rows, files, calls, result>>

\* spray.py 15-41: _spray_stringified_data in a worker; run_ecl_string returns
\* (ok) or raises, and the exception is stored in the future.
SprayStringifiedData(k, ok) ==
    /\ entry = "spray_file"
    /\ futures[k] = "running"
    /\ ok => CanWrite(target_names[k])
    /\ files' = IF ok THEN Write(files, target_names[k], stringified_rows[k]) ELSE files
    /\ calls' = Append(calls, Call("submit", target_names[k], stringified_rows[k],
                                   <<>>, <<>>, k, ok))
    /\ futures' = [futures EXCEPT ![k] = IF ok THEN "done" ELSE "raised"]
    /\ UNCHANGED <<fn, args, ret, source_file, entry, nrows, chunk_size, max_workers, overwrite, delete, pc,
                   chunks, target_names, stringified_rows, result>>

\* Mutant: the barrier returns as soon as one future has completed.
FirstCompleted ==
    futures = <<>> \/ \E k \in DOMAIN futures : futures[k] \in {"done", "raised"}

\* concurrent.futures.wait(futures) with return_when=ALL_COMPLETED, and the
\* executor's shutdown(wait=True) at the end of the with block.
AllCompleted == \A k \in DOMAIN futures : futures[k] \in {"done", "raised"}

\* spray.py 166: the barrier; the futures' exceptions are not looked at.
SprayWait ==
    /\ pc = "submit"
    /\ Len(futures) = Len(chunks)
    /\ AllCompleted
    /\ pc' = "concatenate"
    /\ UNCHANGED <<fn, args, ret, source_file, entry, nrows, chunk_size, max_workers, overwrite, delete,
                   chunks, target_names, stringified_rows, futures, files, calls, result>>

\* Mutant: the names are collected as the submissions complete.
ToConcatByCompletion ==
    LET done == SelectSeq(calls, LAMBDA c : c.op = "submit")
    IN  [k \in 1..Len(done) |-> done[k].name]

\* The to_concat argument of concatenate_logical_files (spray.py 168).
ToConcat == target_names

\* spray.py 168-169, 194-228: concatenate_logical_files; an error of the
\* script propagates out of spray_file.
ConcatenateLogicalFiles(ok) ==
    /\ pc = "concatenate"
    /\ ok => (CanRead(ToConcat) /\ CanWrite(logical_file))
    /\ files' = IF ok
                THEN Write(files, logical_file,
                           Flatten([k \in 1..Len(ToConcat) |-> files[ToConcat[k]]]))
                ELSE files
    /\ calls' = Append(calls, Call("concat", logical_file, <<>>, ToConcat, <<>>, 0, ok))
    /\ pc' = IF ok THEN "delete" ELSE "done"
    /\ result' = IF ok THEN result ELSE "raised"
    /\ UNCHANGED <<fn, args, ret, source_file, entry, nrows, chunk_size, max_workers, overwrite, delete,
                   chunks, target_names, stringified_rows, futures>>

\* spray.py 171-172: one turn of the delete loop; an error of
\* delete_logical_file propagates.
DeleteLogicalFile(ok) ==
    /\ pc = "delete"
    /\ NumCalls("delete") < Len(target_names)
    /\ LET tmp == target_names[NumCalls("delete") + 1]
       IN  /\ files' = IF ok THEN Remove(files, {tmp}) ELSE files
           /\ calls' = Append(calls, Call("delete", tmp, <<>>, <<>>, <<tmp>>, 0, ok))
    /\ pc' = IF ok THEN "delete" ELSE "done"
    /\ result' = IF ok THEN result ELSE "raised"
    /\ UNCHANGED <<fn, args, ret, source_file, entry, nrows, chunk_size, max_workers, overwrite, delete,
                   chunks, target_names, stringified_rows, futures>>

\* spray.py 171-172: the loop is over; spray_file returns None.
SprayReturn ==
    /\ pc = "delete"
    /\ NumCalls("delete") = Len(target_names)
    /\ pc' = "done"
    /\ result' = "returned"
    /\ UNCHANGED <<fn, args, ret, source_file, entry, nrows, chunk_size, max_workers, overwrite, delete,
                   chunks, target_names, stringified_rows, futures, files, calls>>

----------------------------------------------------------------------------
\* send_file_internal

\* runscript.py 39-46: the syntax check raises ("syntax", the script is not
\* run), the script's stderr is non-empty ("stderr", raises) or it is empty.
RunScriptOutcomes == {"ok", "stderr", "syntax"}

\* sendfiles.py 45: the test that selects the chunked path.
UseChunks == nrows > chunk_size

\* sendfiles.py 42-47, 58-65.
SendPlan ==
    /\ pc = "start"
    /\ entry = "send_file_internal"
    /\ chunks' = IF UseChunks THEN SendChunks(nrows, chunk_size) ELSE <<>>
    /\ pc' = IF UseChunks THEN "send_chunks" ELSE "send_direct"
    /\ UNCHANGED <<fn, args, ret, source_file, entry, nrows, chunk_size, max_workers, overwrite, delete,
                   target_names, stringified_rows, futures, files, calls, result>>

\* sendfiles.py 154-168 with run_script_internal: the effect of one send_data.
SendData(name, rows, chunk, out) ==
    /\ (out = "ok") => CanWrite(name)
    /\ files' = IF out = "ok" THEN Write(files, name, rows) ELSE files
    /\ calls' = IF out = "syntax" THEN calls
                ELSE Append(calls, Call("submit", name, rows, <<>>, <<>>, chunk, out = "ok"))

\* sendfiles.py 48-51: the direct path.
SendDirect(out) ==
    /\ pc = "send_direct"
    /\ SendData(logical_file, make_rows(nrows, 0, nrows), 0, out)
    /\ pc' = "done"
    /\ result' = IF out = "ok" THEN "returned" ELSE "raised"
    /\ UNCHANGED <<fn, args, ret, source_file, entry, nrows, chunk_size, max_workers, overwrite, delete,
                   chunks, target_names, stringified_rows, futures>>

\* The logical file a chunk of _send_file_in_chunks is written to
\* (sendfiles.py 72 passes target_name, not target_name_tmp).
SendChunkTarget(tmp) == logical_file

\* sendfiles.py 66-72: one turn of the chunk loop.
SendChunk(out) ==
    /\ pc = "send_chunks"
    /\ Len(target_names) < Len(chunks)
    /\ LET k   == Len(target_names) + 1
           tmp == TempName(chunks[k][1], chunks[k][2])
           all_rows == make_rows(nrows, chunks[k][1], chunks[k][2])
       IN  /\ target_names' = Append(target_names, tmp)
           /\ stringified_rows' = Append(stringified_rows, all_rows)
           /\ SendData(SendChunkTarget(tmp), all_rows, k, out)
    /\ pc' = IF out = "ok" THEN "send_chunks" ELSE "done"
    /\ result' = IF out = "ok" THEN result ELSE "raised"
    /\ UNCHANGED <<fn, args, ret, source_file, entry, nrows, chunk_size, max_workers, overwrite, delete,
                   chunks, futures>>

\* Whether concat_files raises on the gateway's response
\* (sendfiles.py 100 drops the response of run_command).
ConcatFilesRaises(ok) == FALSE

\* sendfiles.py 74, 79-103: concat_files; the delete statements, when
\* requested, are part of the same script.
ConcatFiles(ok) ==
    /\ pc = "send_chunks"
    /\ Len(target_names) = Len(chunks)
    /\ ok => (CanRead(target_names) /\ CanWrite(logical_file))
    /\ LET deletes == IF delete THEN target_names ELSE <<>>
       IN  /\ files' = IF ok
                       THEN Remove(Write(files, logical_file,
                                Flatten([k \in 1..Len(target_names) |-> files[target_names[k]]])),
                                Range(deletes))
                       ELSE files
           /\ calls' = Append(calls, Call("concat", logical_file, <<>>, target_names,
                                          deletes, 0, ok))
    /\ pc' = "done"
    /\ result' = IF ConcatFilesRaises(ok) THEN "raised" ELSE "returned"
    /\ UNCHANGED <<fn, args, ret, source_file, entry, nrows, chunk_size, max_workers, overwrite, delete,
                   chunks, target_names, stringified_rows, futures>>

----------------------------------------------------------------------------
Next ==
    \/ SprayTypeError
    \/ SprayPlan
    \/ SpraySubmit
    \/ \E k \in DOMAIN futures : WorkerStart(k)
    \/ \E k \in DOMAIN futures, ok \in BOOLEAN : SprayStringifiedData(k, ok)
    \/ SprayWait
    \/ \E ok \in BOOLEAN : ConcatenateLogicalFiles(ok)
    \/ \E ok \in BOOLEAN : DeleteLogicalFile(ok)
    \/ SprayReturn
    \/ SendPlan
    \/ \E out \in RunScriptOutcomes : SendDirect(out)
    \/ \E out \in RunScriptOutcomes : SendChunk(out)
    \/ \E ok \in BOOLEAN : ConcatFiles(ok)

Spec == Init /\ [][Next]_vars

----------------------------------------------------------------------------
\* Properties

ConcatIssued == NumCalls("concat") > 0

ChunkFailed ==
    \/ \E k \in DOMAIN futures : futures[k] = "raised"
    \/ \E k \in DOMAIN calls : calls[k].op = "submit" /\ calls[k].chunk > 0 /\ ~calls[k].ok

\* C1: once a chunk submission of a chunked spray has failed, the
\* concatenation script is never executed, the upload does not return
\* normally, and it ends only after every dispatched submission has finished.
C1_FailedChunkStopsUpload ==
    ChunkFailed =>
        /\ ~ConcatIssued
        /\ result # "returned"
        /\ (result = "raised" => AllCompleted)

\* Number of times row r was serialised into a chunk.
Occurrences(r) ==
    Cardinality({kj \in (DOMAIN stringified_rows) \X (0..MaxRows) :
                    /\ kj[2] \in DOMAIN stringified_rows[kj[1]]
                    /\ stringified_rows[kj[1]][kj[2]] = r})

ChunksSerialised == Len(chunks) > 0 /\ Len(stringified_rows) = Len(chunks)

\* C2: when every chunk of a chunked upload has been serialised, each dataset
\* row is in the serialised slices exactly once.
C2_EachRowSerialisedOnce ==
    ChunksSerialised => \A r \in 0..(nrows - 1) : Occurrences(r) = 1

\* C3: every temporary name the concatenation script reads was the output
\* target of exactly one chunk submission, completed before the script ran.
C3_ConcatSourcesWereWritten ==
    \A c \in DOMAIN calls :
        calls[c].op = "concat" =>
            \A s \in DOMAIN calls[c].sources :
                Cardinality({k \in 1..(c - 1) :
                                /\ calls[k].op = "submit"
                                /\ calls[k].name = calls[c].sources[s]}) = 1

\* C4: when the concatenation script has been issued no chunk submission is
\* queued or running, and in spray_file every chunk of the plan has been
\* submitted and has finished, succeeded or failed.
C4_NoConcatWhileInFlight ==
    ConcatIssued =>
        /\ \A k \in DOMAIN futures : futures[k] \in {"done", "raised"}
        /\ entry = "spray_file" =>
              (Len(futures) = Len(chunks) /\ NumCalls("submit") = Len(chunks))

\* C4 witness: the script was issued after a mix of successful and failed
\* submissions.
C4_Witness ==
    /\ ConcatIssued
    /\ entry = "spray_file"
    /\ \E j, k \in DOMAIN futures : futures[j] = "done" /\ futures[k] = "raised"

\* C5: the source names of every concatenation script are the plan's chunks
\* in row order, ascending by start row.
C5_ConcatInPlanOrder ==
    \A c \in DOMAIN calls :
        calls[c].op = "concat" =>
            LET s == calls[c].sources
            IN  /\ Len(s) = Len(chunks)
                /\ \A i \in DOMAIN s : s[i].from = chunks[i][1]
                /\ \A i, j \in DOMAIN s : i < j => s[i].from < s[j].from

\* C5 witness: a concatenation was issued after a later chunk completed
\* before an earlier one.
C5_Witness ==
    /\ ConcatIssued
    /\ \E a, b \in DOMAIN calls :
          /\ a < b
          /\ calls[a].op = "submit" /\ calls[b].op = "submit"
          /\ calls[a].chunk > calls[b].chunk

\* C6: at most max_workers chunk submissions are in flight.
C6_InFlightBounded == Cardinality(InFlight) <= max_workers

\* C6 witness: all workers are busy and a chunk waits in the queue.
C6_Witness ==
    /\ Cardinality(InFlight) = max_workers
    /\ \E k \in DOMAIN futures : futures[k] = "queued"

UsesTemp(c) == c.name.kind = "TEMPHPYCC" \/ c.sources # <<>> \/ c.deletes # <<>>

\* C7: for a dataset of at most chunk_size rows there is at most one
\* submission, it writes the final target, nothing names a temporary, no
\* concatenation or delete is run, and a normal return made one submission.
C7_SmallDatasetDirect ==
    nrows <= chunk_size =>
        /\ NumCalls("submit") <= 1
        /\ NumCalls("concat") = 0
        /\ NumCalls("delete") = 0
        /\ \A k \in DOMAIN calls : ~UsesTemp(calls[k]) /\ calls[k].name = logical_file
        /\ \A n \in DOMAIN files : n = logical_file
        /\ result = "returned" => NumCalls("submit") = 1

\* Deletion of the temporaries is requested: spray_file always deletes,
\* send_file_internal on its delete flag.
DeletionRequested == entry = "spray_file" \/ delete

\* C8: when the upload has ended after a concatenation attempt and deletion
\* was requested, a delete of every temporary was attempted, not before the
\* concatenation.
C8_TemporariesDeleted ==
    (pc = "done" /\ DeletionRequested) =>
        \A c \in DOMAIN calls :
            calls[c].op = "concat" =>
                \A t \in DOMAIN target_names :
                    \E d \in c..Len(calls) : target_names[t] \in Range(calls[d].deletes)

AllCallsOk == \A k \in DOMAIN calls : calls[k].ok

\* C9: an upload that returned with every gateway call successful left the
\* target holding all dataset rows, each once, in source order, on the direct
\* and on the chunked path alike.
C9_TargetHoldsAllRows ==
    (result = "returned" /\ AllCallsOk) =>
        /\ logical_file \in DOMAIN files
        /\ files[logical_file] = AllRows(nrows)

\* C10: the upload never returns normally after a failed concatenation script.
C10_ConcatFailureSurfaced ==
    (\E c \in DOMAIN calls : calls[c].op = "concat" /\ ~calls[c].ok) => result # "returned"

\* C15: spray_file on a source that is neither a DataFrame nor a path string
\* raises at once: no script is run, no logical file exists, no chunk is
\* planned or submitted, and the call never returns normally.
C15_InvalidSourceRaisesFirst ==
    (entry = "spray_file" /\ source_file = "other") =>
        /\ calls = <<>>
        /\ files = <<>>
        /\ futures = <<>>
        /\ target_names = <<>>
        /\ result # "returned"
        /\ pc \in {"start", "done"}
        /\ pc = "done" => result = "raised"

\* C15 witness: the call on such a source has raised.
C15_Witness ==
    entry = "spray_file" /\ source_file = "other" /\ result = "raised"

InFlightOrQueued == {k \in DOMAIN futures : futures[k] \in {"queued", "running"}}

\* C17: while a chunk submission is dispatched and not finished, every chunk
\* of the plan is already serialised: the dataset is normalised and
\* serialised before the first submission, not during the submissions.
C17_SerialisedBeforeDispatch ==
    InFlightOrQueued # {} => Len(stringified_rows) = Len(chunks)

\* End row the plan gives chunk k: start + num_rows in spray_file, the end
\* row in _send_file_in_chunks.
PlanEnd(k) ==
    IF entry = "spray_file" THEN chunks[k][1] + chunks[k][2] ELSE chunks[k][2]

\* C19: the temporary names of two different chunks of an upload differ, and
\* the name of chunk k is made of the chunk's start row and end row only.
C19_TempNamesDistinct ==
    /\ \A i, j \in DOMAIN target_names : i # j => target_names[i] # target_names[j]
    /\ \A k \in DOMAIN target_names :
          /\ target_names[k].kind = "TEMPHPYCC"
          /\ target_names[k].from = chunks[k][1]
          /\ target_names[k].to = PlanEnd(k)

\* C19 witness: an upload of three chunks or more has named them all.
C19_Witness ==
    Len(target_names) >= 3 /\ Len(target_names) = Len(chunks)

HasLit(script, text) == \E k \in DOMAIN script : script[k][1] = "lit" /\ script[k][2] = text

\* C20: every script run that writes a logical file holds the OVERWRITE
\* directive exactly when the overwrite flag is set, and every submit script
\* holds EXPIRE(1).
C20_OverwriteAndExpire ==
    \A c \in DOMAIN calls :
        calls[c].op \in {"submit", "concat"} =>
            /\ HasLit(calls[c].script, ", OVERWRITE") <=> overwrite
            /\ calls[c].op = "submit" => HasLit(calls[c].script, "EXPIRE(1)")

\* C20 witness: with the flag unset, a submit script and a concatenation
\* script have run.
C20_Witness ==
    /\ ~overwrite
    /\ NumCalls("submit") > 0
    /\ NumCalls("concat") > 0
    /\ entry = "spray_file"

----------------------------------------------------------------------------
\* Text.  A Python str is the sequence of its characters.

Letters ==
    {"a", "b", "c", "d", "e", "f", "g", "h", "i", "j", "k", "l", "m",
     "n", "o", "p", "q", "r", "s", "t", "u", "v", "w", "x", "y", "z",
     "A", "B", "C", "D", "E", "F", "G", "H", "I", "J", "K", "L", "M",
     "N", "O", "P", "Q", "R", "S", "T", "U", "V", "W", "X", "Y", "Z"}

Digits == {"0", "1", "2", "3", "4", "5", "6", "7", "8", "9"}

DigitChar(d) == <<"0", "1", "2", "3", "4", "5", "6", "7", "8", "9">>[d + 1]

\* str(n) of a non-negative int.
RECURSIVE str(_)
str(n) == IF n < 10 THEN <<DigitChar(n)>> ELSE str(n \div 10) \o <<DigitChar(n % 10)>>

\* All sequences over S of length at most n.
SeqsUpTo(S, n) == UNION {[1..k -> S] : k \in 0..n}

----------------------------------------------------------------------------
\* make_recordset (sendfiles.py 113-151): the record set of the columns

\* sendfiles.py 123, 10-31: _get_type always answers STRING.
_get_type == "STRING"

\* sendfiles.py 126: re.sub('[^A-Za-z0-9]', '', nam).
re_sub(nam) == SelectSeq(nam, LAMBDA c : c \in Letters \cup Digits)

\* Mutant: a leading digit is left as it is.
safe_name_no_num(nam, unnamed_iterator) ==
    IF re_sub(nam) = <<>> THEN <<"u", "n", "n", "a", "m", "e", "d">> \o str(unnamed_iterator)
    ELSE re_sub(nam)

\* sendfiles.py 126-131: safe_name of a column.
safe_name(nam, unnamed_iterator) ==
    LET named == IF re_sub(nam) = <<>>
                 THEN <<"u", "n", "n", "a", "m", "e", "d">> \o str(unnamed_iterator)
                 ELSE re_sub(nam)
    IN  IF named[1] \in Digits THEN <<"n", "u", "m">> \o named ELSE named

\* sendfiles.py 132: new_entry = ecl_script + ' ' + safe_name.
new_entry(name) == <<_get_type, " ">> \o name

\* str(column_append); 0 stands for the initial ''.
Suffix(n) == IF n = 0 THEN <<>> ELSE str(n)

\* Mutant: the entry is appended without the uniqueness loop.
no_column_append(entry_text, rs, n) == 0

\* sendfiles.py 135-137: the while loop, from column_append = n.
RECURSIVE column_append(_, _, _)
column_append(entry_text, rs, n) ==
    IF \E k \in DOMAIN rs : rs[k] = entry_text \o Suffix(n)
    THEN column_append(entry_text, rs, n + 1)
    ELSE n

\* sendfiles.py 121-138: the loop over the columns, with the record set and
\* the unnamed_iterator so far.
RECURSIVE recordset_loop(_, _, _)
recordset_loop(col_names, rs, unnamed_iterator) ==
    IF col_names = <<>> THEN rs
    ELSE LET nam   == Head(col_names)
             entry_text == new_entry(safe_name(nam, unnamed_iterator))
         IN  recordset_loop(
                 Tail(col_names),
                 Append(rs, entry_text \o Suffix(column_append(entry_text, rs, 0))),
                 IF re_sub(nam) = <<>> THEN unnamed_iterator + 1 ELSE unnamed_iterator)

\* sendfiles.py 113-151: the entries of record_set, before ';'.join.
make_recordset(col_names) == recordset_loop(col_names, <<>>, 0)

\* Column names the schema deriver is applied to: empty, symbols only,
\* plain, colliding after sanitising, digit first, and names equal to the
\* ones the deriver generates.
NamePool ==
    { <<>>, <<"!">>, <<"a">>, <<"a", "!">>, <<"a", "1">>, <<"2">>, <<"2", " ">>,
      <<"n", "u", "m", "2", "1">>, <<"u", "n", "n", "a", "m", "e", "d", "0">> }

----------------------------------------------------------------------------
\* Cells and rows (sendfiles.py 141-146, 106-110; spray.py 95-110, 175-191)

\* str.lower() on the characters the cells are drawn from.
lower(text) == [k \in DOMAIN text |-> IF text[k] = "N" THEN "n" ELSE text[k]]

\* sendfiles.py 143-145: the textual null markers.
IsNullMarker(value) ==
    lower(value) \in { <<"n", "a", "n">>, <<"n", "a">>, <<"n", "u", "l", "l">> }

\* sendfiles.py 146, spray.py 101: str.replace("'", "\\'").
escape_quotes(value) ==
    Flatten([k \in DOMAIN value |->
        IF value[k] = "'" THEN <<"\\", "'">> ELSE <<value[k]>>])

\* sendfiles.py 142-146: a cell of a STRING column as make_recordset leaves it.
quote_cell(value) ==
    <<"'">> \o escape_quotes(IF IsNullMarker(value) THEN <<>> ELSE value) \o <<"'">>

\* Characters the cells are drawn from.
CellChars == {"n", "N", "a", "'", "\\", ","}

\* spray.py 189: an entry of _make_record_set, " ".join((col, _get_type(dtype))).
_make_record_set(columns) == [k \in DOMAIN columns |-> columns[k] \o <<" ", _get_type>>]

\* A field of a serialised row: the cell of a column (column 0 is the index
\* column that reset_index puts first) in the row of a label.
Field(column, label) == [column |-> column, row |-> label]

\* spray.py 95-110: the rows of _stringify_rows(df, 0, len(df)), field by
\* field; reset_index makes the index the first column of sliced_df.
StringifyFields(columns, n) ==
    LET labels == _stringify_rows(n, 0, n)
    IN  [r \in DOMAIN labels |->
            <<Field(0, labels[r])>> \o [k \in DOMAIN columns |-> Field(k, labels[r])]]

\* sendfiles.py 106-110: the rows of make_rows(df, 0, len(df)), field by field.
MakeRowsFields(columns, n) ==
    LET labels == make_rows(n, 0, n)
    IN  [r \in DOMAIN labels |-> [k \in DOMAIN columns |-> Field(k, labels[r])]]

\* Record set and serialised rows of one dataset, as spray_file
\* (spray.py 149, 154) and as send_file_internal (sendfiles.py 43, 48) make them.
serialise(impl, columns, n) ==
    IF impl = "spray_file"
    THEN [record_set |-> _make_record_set(columns), rows |-> StringifyFields(columns, n)]
    ELSE [record_set |-> make_recordset(columns), rows |-> MakeRowsFields(columns, n)]

----------------------------------------------------------------------------
\* save_outputs (save.py 51-115)

\* Python's None among file names.
None == <<"None">>

Falsy(x) == x = None \/ x = <<>>

Max(a, b) == IF a > b THEN a ELSE b

\* save.py 99-100: itertools.zip_longest(filenames, parsed_filenames), None
\* filling the shorter one.
zip_longest(a, b) ==
    [k \in 1..Max(Len(a), Len(b)) |->
        <<IF k <= Len(a) THEN a[k] ELSE None, IF k <= Len(b) THEN b[k] ELSE None>>]

\* save.py 98-115 for the ECL output names `outputs`: the error raised, and
\* the files written, one to_csv per element of zip(chosen_filenames, outputs).
save_outputs(filenames, prefix, outputs) ==
    LET parsed_filenames == [k \in DOMAIN outputs |-> outputs[k] \o <<".csv">>]
        zipped == zip_longest(filenames, parsed_filenames)
        chosen == [k \in DOMAIN zipped |->
                      IF ~Falsy(zipped[k][1]) THEN zipped[k][1] ELSE zipped[k][2]]
        prefixed == [k \in DOMAIN chosen |-> prefix \o chosen[k]]
        names  == IF Falsy(prefix) THEN chosen ELSE prefixed
    IN  IF filenames = None
        THEN [raised |-> "TypeError", written |-> <<>>]
        ELSE IF ~Falsy(prefix) /\ \E k \in DOMAIN chosen : chosen[k] = None
        THEN [raised |-> "TypeError", written |-> <<>>]
        ELSE [raised |-> "no",
              written |-> [k \in 1..Min(Len(names), Len(outputs)) |->
                              [path |-> names[k], output |-> k]]]

\* File names and output names save_outputs is applied to.
FileNames == {None, <<>>, <<"f">>, <<"g">>}

OutputNames == {<<"Result 1">>, <<"out">>}

----------------------------------------------------------------------------
\* run_script_internal (runscript.py 10-51) and syntax_check (syntaxcheck.py)

\* Pieces the compiler's stderr is made of.
ErrTokens == {": error", ": ERROR", ": warning", ": WARNING", "note"}

\* err.lower() on those pieces.
lower_err(err) ==
    [k \in DOMAIN err |->
        IF err[k] = ": ERROR" THEN ": error"
        ELSE IF err[k] = ": WARNING" THEN ": warning"
        ELSE err[k]]

Contains(err, piece) == \E k \in DOMAIN err : err[k] = piece

\* Mutant: the warning branch is tested before the error branch.
syntax_check_warning_first(is_file, err) ==
    IF ~is_file THEN "FileNotFoundError"
    ELSE IF err # <<>> /\ Contains(lower_err(err), ": warning") THEN "no"
    ELSE IF err # <<>> THEN "EnvironmentError"
    ELSE "no"

\* syntaxcheck.py 32-50: the exception raised, or "no".
syntax_check(is_file, err) ==
    IF ~is_file THEN "FileNotFoundError"
    ELSE IF err # <<>> /\ Contains(lower_err(err), ": error") THEN "EnvironmentError"
    ELSE IF err # <<>> /\ Contains(lower_err(err), ": warning") THEN "no"
    ELSE IF err # <<>> /\ ~Contains(lower_err(err), ": warning") THEN "EnvironmentError"
    ELSE "no"

\* syntaxcheck.py 32-40: eclcc is run by run_command only past the isfile test.
runs_eclcc(is_file) == is_file

\* syntaxcheck.py 10-50: one call of syntax_check, the exception raised or
\* "no" and whether the compiler was run.
syntax_check_call(is_file, err) ==
    [raised |-> syntax_check(is_file, err), compiled |-> runs_eclcc(is_file)]

\* Mutant: the response's stderr is not looked at.
run_script_internal_unchecked(do_syntaxcheck, is_file, eclcc_err, stderr) ==
    IF do_syntaxcheck /\ syntax_check(is_file, eclcc_err) # "no"
    THEN [raised |-> syntax_check(is_file, eclcc_err), ran |-> FALSE, value |-> None]
    ELSE [raised |-> "no", ran |-> TRUE, value |-> None]

\* runscript.py 39-51: the exception raised or "no", whether the script was
\* run on the gateway, and the value returned.
run_script_internal(do_syntaxcheck, is_file, eclcc_err, stderr) ==
    IF do_syntaxcheck /\ syntax_check(is_file, eclcc_err) # "no"
    THEN [raised |-> syntax_check(is_file, eclcc_err), ran |-> FALSE, value |-> None]
    ELSE IF stderr # <<>>
    THEN [raised |-> "RuntimeError", ran |-> TRUE, value |-> None]
    ELSE [raised |-> "no", ran |-> TRUE, value |-> None]

----------------------------------------------------------------------------
\* Functions applied on their own

FnInputs(f) ==
    CASE f = "make_recordset" -> SeqsUpTo(NamePool, MaxCols)
      [] f = "quote_cell" -> SeqsUpTo(CellChars, MaxLen)
      [] f = "serialise" ->
            [impl : {"spray_file", "send_file_internal"},
             columns : SeqsUpTo({<<"a">>, <<"b">>, <<"2">>}, MaxCols) \ {<<>>},
             n : 1..MaxRows]
      [] f = "save_outputs" ->
            [filenames : {None} \cup SeqsUpTo(FileNames, MaxCols),
             prefix : {None, <<"p_">>},
             outputs : SeqsUpTo(OutputNames, MaxCols)]
      [] f = "run_script_internal" ->
            [do_syntaxcheck : BOOLEAN, is_file : BOOLEAN,
             eclcc_err : SeqsUpTo(ErrTokens, 2), stderr : {<<>>, <<"note">>}]
      [] f = "syntax_check" ->
            [is_file : BOOLEAN, err : SeqsUpTo(ErrTokens, MaxLen)]
      [] OTHER -> {}

FnNames ==
    {"make_recordset", "quote_cell", "serialise", "save_outputs",
     "run_script_internal", "syntax_check"}

FnInit ==
    /\ fn \in FnNames
    /\ args \in FnInputs(fn)
    /\ ret = <<>>
    /\ source_file = "str"
    /\ entry = "none"
    /\ nrows = 0
    /\ chunk_size = 1
    /\ max_workers = 1
    /\ overwrite = FALSE
    /\ delete = FALSE
    /\ pc = "idle"
    /\ chunks = <<>>
    /\ target_names = <<>>
    /\ stringified_rows = <<>>
    /\ futures = <<>>
    /\ files = <<>>
    /\ calls = <<>>
    /\ result = "none"

ApplyMakeRecordset ==
    /\ fn = "make_recordset"
    /\ ret = <<>>
    /\ ret' = <<make_recordset(args)>>
    /\ UNCHANGED <<fn, args, upload_vars>>

ApplyQuoteCell ==
    /\ fn = "quote_cell"
    /\ ret = <<>>
    /\ ret' = <<quote_cell(args)>>
    /\ UNCHANGED <<fn, args, upload_vars>>

ApplySerialise ==
    /\ fn = "serialise"
    /\ ret = <<>>
    /\ ret' = <<serialise(args.impl, args.columns, args.n)>>
    /\ UNCHANGED <<fn, args, upload_vars>>

ApplySaveOutputs ==
    /\ fn = "save_outputs"
    /\ ret = <<>>
    /\ ret' = <<save_outputs(args.filenames, args.prefix, args.outputs)>>
    /\ UNCHANGED <<fn, args, upload_vars>>

ApplyRunScriptInternal ==
    /\ fn = "run_script_internal"
    /\ ret = <<>>
    /\ ret' = <<run_script_internal(args.do_syntaxcheck, args.is_file,
                                    args.eclcc_err, args.stderr)>>
    /\ UNCHANGED <<fn, args, upload_vars>>

ApplySyntaxCheck ==
    /\ fn = "syntax_check"
    /\ ret = <<>>
    /\ ret' = <<syntax_check_call(args.is_file, args.err)>>
    /\ UNCHANGED <<fn, args, upload_vars>>

FnNext ==
    \/ ApplyMakeRecordset
    \/ ApplyQuoteCell
    \/ ApplySerialise
    \/ ApplySaveOutputs
    \/ ApplyRunScriptInternal
    \/ ApplySyntaxCheck

FnSpec == FnInit /\ [][FnNext]_vars

----------------------------------------------------------------------------
\* Properties of the functions

Returned(f) == fn = f /\ ret # <<>>

\* The field name of a record set entry: what follows "STRING ".
FieldName(entry_text) == SubSeq(entry_text, 3, Len(entry_text))

\* ^[A-Za-z][A-Za-z0-9]*$
IsIdentifier(name) ==
    /\ name # <<>>
    /\ name[1] \in Letters
    /\ \A k \in DOMAIN name : name[k] \in Letters \cup Digits

\* C12: make_recordset ends for every sequence of column names, with one
\* entry per column, no two entries identical, and every field name an
\* identifier ^[A-Za-z][A-Za-z0-9]*$.
C12_EntriesUniqueAndLegal ==
    Returned("make_recordset") =>
        LET rs == ret[1]
        IN  /\ Len(rs) = Len(args)
            /\ \A i, j \in DOMAIN rs : i # j => rs[i] # rs[j]
            /\ \A k \in DOMAIN rs :
                  /\ rs[k][1] = "STRING" /\ rs[k][2] = " "
                  /\ IsIdentifier(FieldName(rs[k]))

\* C12 witness: a column's real name equals the name generated for an
\* earlier column (num2 then num21 for two columns "2", then a column
\* "num21"), and the record set was returned.
C12_Witness ==
    /\ Returned("make_recordset")
    /\ args = << <<"2">>, <<"2", " ">>, <<"n", "u", "m", "2", "1">> >>

\* The sanitised name the claim gives column k: the characters of
\* [A-Za-z0-9] kept, unnamed<N> for an empty rest, num before a leading digit.
ClaimedSafeName(k) ==
    LET kept(j) == SelectSeq(args[j], LAMBDA c : c \in Letters \cup Digits)
        N       == Cardinality({j \in 1..(k - 1) : kept(j) = <<>>})
        named   == IF kept(k) = <<>>
                   THEN <<"u", "n", "n", "a", "m", "e", "d">> \o str(N)
                   ELSE kept(k)
    IN  IF named[1] \in Digits THEN <<"n", "u", "m">> \o named ELSE named

\* Column k's entry is "STRING <name><n>", n the least of '', 1, 2, ... that
\* no earlier entry uses.
LeastFreeSuffix(rs, k, name) ==
    \E n \in 0..Len(rs) :
        /\ rs[k] = <<"STRING", " ">> \o name \o Suffix(n)
        /\ \A j \in 1..(k - 1) : rs[j] # rs[k]
        /\ \A m \in 0..(n - 1) :
              \E j \in 1..(k - 1) : rs[j] = <<"STRING", " ">> \o name \o Suffix(m)

\* C13 as stated: every column gets the claimed sanitised name; the first
\* column with a given sanitised name gets no suffix, a later one the
\* smallest suffix 1, 2, ... that makes its entry unique.
C13_FirstOfNameUnsuffixed ==
    Returned("make_recordset") =>
        \A k \in DOMAIN args :
            IF \A j \in 1..(k - 1) : ClaimedSafeName(j) # ClaimedSafeName(k)
            THEN ret[1][k] = <<"STRING", " ">> \o ClaimedSafeName(k)
            ELSE /\ ret[1][k] # <<"STRING", " ">> \o ClaimedSafeName(k)
                 /\ LeastFreeSuffix(ret[1], k, ClaimedSafeName(k))

\* C13 amended: every column gets the claimed sanitised name; a column whose
\* entry is not yet in the record set gets no suffix, and one whose entry is
\* already there (an earlier column has the same sanitised name, or an
\* earlier suffixed name equals it) gets the smallest suffix 1, 2, ... that
\* makes its entry unique.
C13_LeastFreeSuffix ==
    Returned("make_recordset") =>
        \A k \in DOMAIN args : LeastFreeSuffix(ret[1], k, ClaimedSafeName(k))

\* C13 witness: "2 " gives num2, a second such column num21, and an
\* anonymous column unnamed0.
C13_Witness ==
    /\ Returned("make_recordset")
    /\ args = << <<"2", " ">>, <<"2">>, <<"!">> >>
    /\ ret[1] = << <<"STRING", " ", "n", "u", "m", "2">>,
                   <<"STRING", " ", "n", "u", "m", "2", "1">>,
                   <<"STRING", " ", "u", "n", "n", "a", "m", "e", "d", "0">> >>

\* C11: the record set has one `type name` entry per column, in column order,
\* and every serialised row has exactly one field per entry, the i-th field
\* being the cell of the i-th column of that row (no index field).
C11_OneFieldPerColumn ==
    Returned("serialise") =>
        LET rs   == ret[1].record_set
            rows == ret[1].rows
        IN  /\ Len(rs) = Len(args.columns)
            /\ \A k \in DOMAIN rs : rs[k][1] = "STRING" /\ rs[k][2] = " "
            /\ Len(rows) = args.n
            /\ \A r \in DOMAIN rows :
                  /\ Len(rows[r]) = Len(rs)
                  /\ \A i \in DOMAIN rows[r] : rows[r][i] = Field(i, r - 1)

\* Reading a quoted literal back: after the opening quote, \' stands for a
\* quote, any other character for itself, and the first quote that is not
\* escaped closes the literal.  closed_at is 0 for a literal left open.
RECURSIVE ScanLiteral(_, _, _)
ScanLiteral(lit, i, acc) ==
    IF i > Len(lit) THEN [closed_at |-> 0, value |-> acc]
    ELSE IF lit[i] = "\\" /\ i < Len(lit) /\ lit[i + 1] = "'"
    THEN ScanLiteral(lit, i + 2, Append(acc, "'"))
    ELSE IF lit[i] = "'" THEN [closed_at |-> i, value |-> acc]
    ELSE ScanLiteral(lit, i + 1, Append(acc, lit[i]))

RoundTrips(value, lit) ==
    /\ lit # <<>>
    /\ lit[1] = "'"
    /\ ScanLiteral(lit, 2, <<>>).closed_at = Len(lit)
    /\ ScanLiteral(lit, 2, <<>>).value = value

\* C14: the quoted literal of every string cell that is not a null marker,
\* over the quote, the backslash, the comma and letters, reads back as the
\* cell's value.
C14_QuoteRoundTrip ==
    (Returned("quote_cell") /\ ~IsNullMarker(args)) => RoundTrips(args, ret[1])

\* The default file name of output k: <prefix><ECL output name>.csv.
DefaultPath(k) ==
    (IF Falsy(args.prefix) THEN <<>> ELSE args.prefix) \o args.outputs[k] \o <<".csv">>

\* The file name the caller gave output k, if any, with the prefix.
GivenPath(k) ==
    (IF Falsy(args.prefix) THEN <<>> ELSE args.prefix) \o args.filenames[k]

\* C16: save_outputs writes exactly one file per output; without filenames
\* each under <prefix><ECL output name>.csv, with filenames the k-th under
\* filenames[k] when there is one and under the default name otherwise.
C16_OneFilePerOutput ==
    Returned("save_outputs") =>
        LET w == ret[1].written
        IN  /\ ret[1].raised = "no"
            /\ Len(w) = Len(args.outputs)
            /\ \A k \in DOMAIN w :
                  /\ w[k].output = k
                  /\ w[k].path =
                        IF args.filenames # None /\ k <= Len(args.filenames)
                           /\ ~Falsy(args.filenames[k])
                        THEN GivenPath(k)
                        ELSE DefaultPath(k)

\* The syntax check of the call raises: it is asked for and eclcc rejects
\* the script or the script is not a file.
CheckRaises ==
    args.do_syntaxcheck /\ syntax_check(args.is_file, args.eclcc_err) # "no"

\* C18 as stated: run_script_internal raises exactly when the gateway's
\* response for the script has a non-empty stderr and returns None
\* otherwise, and a script whose syntax check raises is never run.
C18_RaisesIffStderr ==
    Returned("run_script_internal") =>
        LET r == ret[1]
        IN  /\ r.raised # "no" <=> (r.ran /\ args.stderr # <<>>)
            /\ r.raised = "no" => r.value = None
            /\ CheckRaises => ~r.ran

\* C18 amended: run_script_internal raises exactly when its syntax check
\* raises or the response of the script that ran has a non-empty stderr; it
\* returns None otherwise, and the script runs on the gateway exactly when
\* the syntax check did not raise.
C18_RaisesIffCheckOrStderr ==
    Returned("run_script_internal") =>
        LET r == ret[1]
        IN  /\ r.raised # "no" <=> (CheckRaises \/ (r.ran /\ args.stderr # <<>>))
            /\ r.raised = "no" => r.value = None
            /\ r.ran <=> ~CheckRaises

\* C18 witness: the syntax check found an error, the call raised and the
\* script, whose response would have had an empty stderr, was never run.
C18_Witness ==
    /\ Returned("run_script_internal")
    /\ CheckRaises
    /\ args.is_file
    /\ args.stderr = <<>>
    /\ ~ret[1].ran
    /\ ret[1].raised # "no"

\* The compiler's stderr has an error marker, a warning marker, whatever
\* the case of their letters.
HasErrorMarker(err) == \E k \in DOMAIN err : err[k] \in {": error", ": ERROR"}

HasWarningMarker(err) == \E k \in DOMAIN err : err[k] \in {": warning", ": WARNING"}

\* C21: syntax_check raises FileNotFoundError without running the compiler
\* when the script is not a file; otherwise it runs the compiler and raises
\* exactly when stderr has an error marker (with or without a warning
\* marker) or is non-empty with neither marker, and it returns without
\* raising exactly when stderr is empty or has a warning marker and no
\* error marker.
C21_SyntaxCheckOutcome ==
    Returned("syntax_check") =>
        LET r == ret[1]
            e == args.err
        IN  /\ ~args.is_file => (r.raised = "FileNotFoundError" /\ ~r.compiled)
            /\ args.is_file =>
                  /\ r.compiled
                  /\ r.raised # "FileNotFoundError"
                  /\ r.raised # "no" <=>
                        \/ HasErrorMarker(e)
                        \/ (e # <<>> /\ ~HasErrorMarker(e) /\ ~HasWarningMarker(e))
                  /\ r.raised = "no" <=>
                        (e = <<>> \/ (HasWarningMarker(e) /\ ~HasErrorMarker(e)))

\* C21 witness: the compiler ran on a script that is a file, its stderr had
\* a warning followed by an upper-case error, and syntax_check raised.
C21_Witness ==
    /\ Returned("syntax_check")
    /\ args.is_file
    /\ args.err = <<": warning", ": ERROR">>
    /\ ret[1].compiled
    /\ ret[1].raised = "EnvironmentError"

====
